---- MODULE Spec2Model ----
(***************************************************************************)
(* Model of the autonomous decision engine                                 *)
(*   src/benchmark/src/swarm_benchmark/automation/decision_engine.py       *)
(*                                                                         *)
(* Numbers are decimal fixed point: attribute values and constraint bounds *)
(* are integers in units of 1/VScale, weights in units of 1/WScale, scores *)
(* in units of 1/(VScale*WScale).  Confidences are exact reduced fractions *)
(* <<n, d>>.  Arithmetic is exact (the rounding of binary floating point   *)
(* is not modelled); attribute values are finite (no NaN, no infinity).    *)
(* Wall-clock fields (decision_time, execution_time_ms, timestamp) and the *)
(* fields of a context that no code path reads (current_state,             *)
(* preferences, historical_data) are left out.                             *)
(***************************************************************************)
EXTENDS Integers, Sequences, FiniteSets, TLC

\* ------------------------------------------------------------------ bounds
MaxCalls == 2
MaxAdds == 2
MaxDecides == 1

\* add_strategy calls for one category before the engine decides
MaxRegistered == 6

\* learn_from_feedback calls in the life of an engine in use
MaxFeedbacks == 1

\* make_decision calls in flight as cooperative tasks on one engine
MaxTasks == 2

\* options of a context handed to a strategy on its own
MaxOptions == 3

\* cross-validation scores handed to the robustness check
MaxCvScores == 3

\* ----------------------------------------------------------- fixed point
VScale == 100
WScale == 10
SScale == VScale * WScale
ConstraintPenalty == 1000
DefaultMaxHistory == 1000

\* ----------------------------------------------------- attribute values
\* A Python value of an option attribute: a number (int/float), a bool or a
\* categorical string (identified by an integer code that keeps the order
\* of the strings).
Num(n) == [kind |-> "num", v |-> n]
Bool(b) == [kind |-> "bool", v |-> IF b THEN 1 ELSE 0]
Str(c) == [kind |-> "str", v |-> c]

\* isinstance(value, (int, float)): bool is a subclass of int.
IsNumber(val) == val.kind \in {"num", "bool"}

\* The numeric value of a number, in units of 1/VScale (True is 1, False 0).
NumOf(val) == IF val.kind = "bool" THEN val.v * VScale ELSE val.v

\* Python ==, which never raises.
PyEq(a, b) ==
    IF IsNumber(a) /\ IsNumber(b) THEN NumOf(a) = NumOf(b)
    ELSE a.kind = b.kind /\ a.v = b.v

\* Python < raises TypeError between a number and a string.
Comparable(a, b) == IsNumber(a) = IsNumber(b)

PyLt(a, b) == IF IsNumber(a) THEN NumOf(a) < NumOf(b) ELSE a.v < b.v

\* dict.get(key, default)
Get(d, key, default) == IF key \in DOMAIN d THEN d[key] ELSE default

\* --------------------------------------------------------------- fractions
RECURSIVE GCD(_, _)
GCD(a, b) == IF b = 0 THEN a ELSE GCD(b, a % b)

\* The reduced fraction n/d, for d > 0.
Frac(n, d) == LET g == GCD(n, d) IN <<n \div g, d \div g>>

\* -1, 0 or 1 as a/b is below, equal to or above c/d (b, d > 0), by
\* continued fractions (floor and remainder), so that no product is formed.
RECURSIVE CmpFrac(_, _, _, _)
CmpFrac(a, b, c, d) ==
    LET q1 == a \div b
        q2 == c \div d
        r1 == a % b
        r2 == c % d
    IN  IF q1 < q2 THEN -1
        ELSE IF q1 > q2 THEN 1
        ELSE IF r1 = 0 /\ r2 = 0 THEN 0
        ELSE IF r1 = 0 THEN -1
        ELSE IF r2 = 0 THEN 1
        ELSE -CmpFrac(b, r1, d, r2)

ConfLess(x, y) == CmpFrac(x[1], x[2], y[1], y[2]) < 0

ConfMin(x, y) == IF ConfLess(y, x) THEN y ELSE x

ConfMax(x, y) == IF ConfLess(x, y) THEN y ELSE x

\* ------------------------------------------------------------- constraints
\* A constraint value of context.constraints: a dict with optional keys
\* min, max, equals; a list of allowed values; or a scalar.
RangeC(hasMin, lo, hasMax, hi) ==
    [kind |-> "dict", hasMin |-> hasMin, min |-> Num(lo),
     hasMax |-> hasMax, max |-> Num(hi), hasEq |-> FALSE, eq |-> Num(0),
     items |-> {}]
EqualsC(val) ==
    [kind |-> "dict", hasMin |-> FALSE, min |-> Num(0),
     hasMax |-> FALSE, max |-> Num(0), hasEq |-> TRUE, eq |-> val,
     items |-> {}]
ListC(vals) ==
    [kind |-> "list", hasMin |-> FALSE, min |-> Num(0),
     hasMax |-> FALSE, max |-> Num(0), hasEq |-> FALSE, eq |-> Num(0),
     items |-> vals]
ScalarC(val) ==
    [kind |-> "scalar", hasMin |-> FALSE, min |-> Num(0),
     hasMax |-> FALSE, max |-> Num(0), hasEq |-> TRUE, eq |-> val,
     items |-> {}]
\* A Python set of allowed values: neither a dict nor a list or tuple.
SetC(vals) ==
    [kind |-> "set", hasMin |-> FALSE, min |-> Num(0),
     hasMax |-> FALSE, max |-> Num(0), hasEq |-> FALSE, eq |-> Num(0),
     items |-> vals]

\* WeightedScoringStrategy._meets_constraint: "true", "false", or "raise"
\* when an ordering comparison meets a number and a string (TypeError).
_meets_constraint(value, constraint) ==
    IF constraint.kind = "dict" THEN
        IF constraint.hasMin /\ ~Comparable(value, constraint.min) THEN "raise"
        ELSE IF constraint.hasMin /\ PyLt(value, constraint.min) THEN "false"
        ELSE IF constraint.hasMax /\ ~Comparable(value, constraint.max) THEN "raise"
        ELSE IF constraint.hasMax /\ PyLt(constraint.max, value) THEN "false"
        ELSE IF constraint.hasEq /\ ~PyEq(value, constraint.eq) THEN "false"
        ELSE "true"
    ELSE IF constraint.kind = "list" THEN
        IF \E e \in constraint.items : PyEq(value, e) THEN "true" ELSE "false"
    ELSE
        \* value == constraint: an attribute value never equals a set
        IF constraint.kind = "scalar" /\ PyEq(value, constraint.eq)
        THEN "true" ELSE "false"

\* ----------------------------------------------------------------- scoring
RECURSIVE SumOver(_, _, _)
SumOver(keys, option, weights) ==
    IF keys = {} THEN 0
    ELSE LET k == CHOOSE x \in keys : TRUE
             term == IF k \in DOMAIN option /\ IsNumber(option[k])
                     THEN NumOf(option[k]) * weights[k]
                     ELSE 0
         IN  term + SumOver(keys \ {k}, option, weights)

\* A constraint on an attribute the option lacks counted as violated.
Violated_MissingCounts(option, constraints) ==
    {c \in DOMAIN constraints :
        \/ c \notin DOMAIN option
        \/ _meets_constraint(option[c], constraints[c]) = "false"}

\* The constraints of the context that apply to the option.
Applicable(option, constraints) == DOMAIN constraints \cap DOMAIN option

Violated(option, constraints) ==
    {c \in Applicable(option, constraints) :
        _meets_constraint(option[c], constraints[c]) = "false"}

\* WeightedScoringStrategy._calculate_score: the adjusted score, or a raise.
_calculate_score(weights, option, constraints) ==
    IF \E c \in Applicable(option, constraints) :
           _meets_constraint(option[c], constraints[c]) = "raise"
    THEN [raised |-> TRUE, score |-> 0]
    ELSE [raised |-> FALSE,
          score |-> SumOver(DOMAIN weights, option, weights)
                    - ConstraintPenalty * SScale
                      * Cardinality(Violated(option, constraints))]

\* -------------------------------------------------------------- strategies
\* Strategy objects.  DecisionStrategy is the base class, whose evaluate
\* raises NotImplementedError.
NoWeights == [a \in {} |-> 0]

WeightedScoringStrategy(weights) == [name |-> "weighted_scoring", weights |-> weights]

MLBasedStrategy == [name |-> "ml_based", weights |-> NoWeights]

DecisionStrategy == [name |-> "base", weights |-> NoWeights]

\* Python None, as the option returned when no score exceeded -inf.
NoneOption == [a \in {"None"} |-> Num(0)]

Success(option, confidence, name) ==
    [ok |-> TRUE, option |-> option, confidence |-> confidence,
     name |-> name, error |-> "none"]

Failure(name, error) ==
    [ok |-> FALSE, option |-> NoneOption, confidence |-> <<0, 1>>,
     name |-> name, error |-> error]

RECURSIVE MaxOf(_)
MaxOf(S) ==
    LET x == CHOOSE y \in S : TRUE
    IN  IF S = {x} THEN x
        ELSE LET m == MaxOf(S \ {x}) IN IF x > m THEN x ELSE m

\* The gap divided by the magnitude of the top score.
GapConfidence_ByMagnitude(top_score, second_score) ==
    LET gap == top_score - second_score
        ratio == IF top_score > 0 THEN Frac(gap, top_score)
                 ELSE Frac(gap, -top_score)
    IN  ConfMin(<<19, 20>>, ConfMax(<<1, 10>>, ratio))

\* The gap ratio without the upper clamp.
GapConfidence_NoUpperClamp(top_score, second_score) ==
    LET gap == top_score - second_score
        ratio == IF top_score > 0 THEN Frac(gap, top_score)
                 ELSE Frac(-gap, -top_score)
    IN  ConfMax(<<1, 10>>, ratio)

\* min(0.95, max(0.1, (top_score - second_score) / top_score)), top_score # 0
GapConfidence(top_score, second_score) ==
    LET gap == top_score - second_score
        ratio == IF top_score > 0 THEN Frac(gap, top_score)
                 ELSE Frac(-gap, -top_score)
    IN  ConfMin(<<19, 20>>, ConfMax(<<1, 10>>, ratio))

\* WeightedScoringStrategy.evaluate
WeightedEvaluate(weights, context) ==
    LET options == context.available_options
        n == Len(options)
        scored == [i \in 1..n |->
                     _calculate_score(weights, options[i], context.constraints)]
        score(i) == scored[i].score
        \* best_option: the first option whose score is the highest
        best == CHOOSE i \in 1..n :
                    /\ \A j \in 1..n : score(j) <= score(i)
                    /\ \A j \in 1..(i - 1) : score(j) < score(i)
        \* scores[0][1] and scores[1][1] after the descending sort
        top_score == score(best)
        second_score == MaxOf({score(j) : j \in (1..n) \ {best}})
    IN  IF \E i \in 1..n : scored[i].raised
        THEN Failure("weighted_scoring", "TypeError")
        ELSE IF n = 0 THEN Success(NoneOption, <<1, 2>>, "weighted_scoring")
        ELSE IF n = 1 THEN Success(options[best], <<1, 2>>, "weighted_scoring")
        ELSE IF top_score = 0
        THEN Failure("weighted_scoring", "ZeroDivisionError")
        ELSE Success(options[best], GapConfidence(top_score, second_score),
                     "weighted_scoring")

\* x.get('expected_performance', 0)
ExpectedPerformance(option) == Get(option, "expected_performance", Num(0))

\* The last of the options with the largest key taken.
MLEvaluate_LastTie(context) ==
    LET options == context.available_options
        n == Len(options)
        key(i) == Get(options[i], "expected_performance", Num(0))
        best == CHOOSE i \in 1..n :
                    /\ \A j \in 1..n : ~PyLt(key(i), key(j))
                    /\ \A j \in (i + 1)..n : PyLt(key(j), key(i))
    IN  IF n = 0 THEN Failure("ml_based", "ValueError")
        ELSE IF \E i, j \in 1..n : ~Comparable(key(i), key(j))
        THEN Failure("ml_based", "TypeError")
        ELSE Success(options[best], <<7, 10>>, "ml_based")

\* MLBasedStrategy.evaluate: max() keeps the first of the largest keys and
\* raises TypeError when it compares a number with a string.
MLEvaluate(context) ==
    LET options == context.available_options
        n == Len(options)
        key(i) == ExpectedPerformance(options[i])
        best == CHOOSE i \in 1..n :
                    /\ \A j \in 1..n : ~PyLt(key(i), key(j))
                    /\ \A j \in 1..(i - 1) : PyLt(key(j), key(i))
    IN  IF n = 0 THEN Failure("ml_based", "ValueError")
        ELSE IF \E i, j \in 1..n : ~Comparable(key(i), key(j))
        THEN Failure("ml_based", "TypeError")
        ELSE Success(options[best], <<7, 10>>, "ml_based")

\* strategy.evaluate(context), by the class of the strategy
Evaluate(strategy, context) ==
    IF strategy.name = "weighted_scoring"
    THEN WeightedEvaluate(strategy.weights, context)
    ELSE IF strategy.name = "ml_based" THEN MLEvaluate(context)
    ELSE Failure(strategy.name, "NotImplementedError")

\* ------------------------------------------------------------------ engine
\* DecisionType
DecisionType ==
    {"resource_allocation", "task_prioritization", "error_handling",
     "optimization", "routing", "scaling"}

\* The fallback weights with the sign of the cost weight lost.
fallback_strategy_PositiveCost ==
    WeightedScoringStrategy(
        [a \in {"performance", "cost", "reliability"} |->
            CASE a = "performance" -> 4 [] a = "cost" -> 3 [] a = "reliability" -> 3])

\* DecisionEngine.__init__: self.fallback_strategy
fallback_strategy ==
    WeightedScoringStrategy(
        [a \in {"performance", "cost", "reliability"} |->
            CASE a = "performance" -> 4 [] a = "cost" -> -3 [] a = "reliability" -> 3])

\* DecisionEngine._setup_default_strategies
resource_strategy ==
    WeightedScoringStrategy(
        [a \in {"available_cpu", "available_memory", "cost_per_hour", "reliability_score"} |->
            CASE a = "available_cpu" -> 3 [] a = "available_memory" -> 3
              [] a = "cost_per_hour" -> -2 [] a = "reliability_score" -> 2])

priority_strategy ==
    WeightedScoringStrategy(
        [a \in {"deadline_urgency", "business_value", "complexity", "dependencies"} |->
            CASE a = "deadline_urgency" -> 4 [] a = "business_value" -> 3
              [] a = "complexity" -> -2 [] a = "dependencies" -> -1])

error_strategy ==
    WeightedScoringStrategy(
        [a \in {"recovery_probability", "recovery_time", "impact_severity"} |->
            CASE a = "recovery_probability" -> 5 [] a = "recovery_time" -> -3
              [] a = "impact_severity" -> -2])

\* The registry after construction: a dict keyed by the categories that
\* have a list.
DefaultStrategies ==
    [t \in {"resource_allocation", "task_prioritization", "error_handling"} |->
        CASE t = "resource_allocation" -> <<resource_strategy>>
          [] t = "task_prioritization" -> <<priority_strategy>>
          [] t = "error_handling" -> <<error_strategy>>]

\* The strategy put at the front of the category's list.
add_strategy_Prepend(registry, decision_type, strategy) ==
    [t \in DOMAIN registry \cup {decision_type} |->
        IF t = decision_type
        THEN <<strategy>> \o Get(registry, t, <<>>)
        ELSE registry[t]]

\* DecisionEngine.add_strategy, on the registry
add_strategy(registry, decision_type, strategy) ==
    [t \in DOMAIN registry \cup {decision_type} |->
        IF t = decision_type
        THEN Append(Get(registry, t, <<>>), strategy)
        ELSE registry[t]]

\* DecisionEngine._predict_outcome: option.get('reliability_score', 0.8) > 0.8
\* raises TypeError when the attribute is a string.
_predict_outcome(option) ==
    LET reliability == Get(option, "reliability_score", Num(80))
    IN  IF ~IsNumber(reliability)
        THEN [raised |-> TRUE, outcome |-> [risk_level |-> "none"]]
        ELSE [raised |-> FALSE,
              outcome |->
                [expected_success_rate |-> reliability,
                 estimated_completion_time |-> Get(option, "estimated_time", Str(0)),
                 estimated_cost |-> Get(option, "cost", Num(0)),
                 risk_level |-> IF NumOf(reliability) > 80 THEN "low" ELSE "medium"]]

\* A descending sort that puts the later of two equal confidences first.
RECURSIVE SortByConfidence_LaterFirst(_)
SortByConfidence_LaterFirst(evals) ==
    IF evals = <<>> THEN <<>>
    ELSE LET n == Len(evals)
             e == evals[n]
             front == SortByConfidence_LaterFirst(SubSeq(evals, 1, n - 1))
             k == Cardinality({i \in 1..Len(front) :
                                  ConfLess(e.confidence, front[i].confidence)})
         IN  SubSeq(front, 1, k) \o <<e>> \o SubSeq(front, k + 1, Len(front))

\* list.sort(key=lambda x: x[1], reverse=True): stable, descending confidence
RECURSIVE SortByConfidence(_)
SortByConfidence(evals) ==
    IF evals = <<>> THEN <<>>
    ELSE LET n == Len(evals)
             e == evals[n]
             front == SortByConfidence(SubSeq(evals, 1, n - 1))
             \* e goes after every element that is not below it
             k == Cardinality({i \in 1..Len(front) :
                                  ~ConfLess(front[i].confidence, e.confidence)})
         IN  SubSeq(front, 1, k) \o <<e>> \o SubSeq(front, k + 1, Len(front))

\* seq[start:] of Python
SliceFrom(seq, start) ==
    LET n == Len(seq)
        from == IF start < 0
                THEN (IF n + start < 0 THEN 0 ELSE n + start)
                ELSE (IF start > n THEN n ELSE start)
    IN  SubSeq(seq, from + 1, n)

\* seq[lo:] in the place of seq[lo:hi]
Slice_NoUpper(seq, lo, hi) == SubSeq(seq, lo + 1, Len(seq))

\* seq[lo:hi] of Python, for 0 <= lo <= hi
Slice(seq, lo, hi) ==
    SubSeq(seq, lo + 1, IF hi > Len(seq) THEN Len(seq) ELSE hi)

\* ConfigurableComponent.get_config_value
get_config_value(cfg, key, default) == Get(cfg, key, default)

\* The history trimmed to its oldest entries.
_store_decision_KeepsOldest(history, result, cfg) ==
    LET max_history == get_config_value(cfg, "max_history_size", DefaultMaxHistory)
        appended == Append(history, result)
    IN  IF Len(appended) > max_history
        THEN SubSeq(appended, 1, max_history)
        ELSE appended

\* DecisionEngine._store_decision, on the history
_store_decision(history, result, cfg) ==
    LET max_history == get_config_value(cfg, "max_history_size", DefaultMaxHistory)
        appended == Append(history, result)
    IN  IF Len(appended) > max_history
        THEN SliceFrom(appended, -max_history)
        ELSE appended

\* sum(d.confidence for d in history), exactly
RECURSIVE SumConfidence(_)
SumConfidence(history) ==
    IF history = <<>> THEN <<0, 1>>
    ELSE LET rest == SumConfidence(Tail(history))
             c == Head(history).confidence
         IN  Frac(c[1] * rest[2] + rest[1] * c[2], c[2] * rest[2])

Half == <<1, 2>>

FourFifths == <<4, 5>>

\* The statistics computed for an empty history as for any other.
get_decision_statistics_NoEmptyCase(history) ==
    LET low(c) == ConfLess(c, Half)
        medium(c) == ~ConfLess(c, Half) /\ ConfLess(c, FourFifths)
        high(c) == ~ConfLess(c, FourFifths)
    IN  [total_decisions |-> Len(history),
         average_confidence |-> <<0, 1>>,
         confidence_distribution |->
            [low |-> Cardinality({i \in DOMAIN history : low(history[i].confidence)}),
             medium |-> Cardinality({i \in DOMAIN history : medium(history[i].confidence)}),
             high |-> Cardinality({i \in DOMAIN history : high(history[i].confidence)})]]

\* The medium bucket open at 0.5.
get_decision_statistics_OpenMedium(history) ==
    LET low(c) == ConfLess(c, Half)
        medium(c) == ConfLess(Half, c) /\ ConfLess(c, FourFifths)
        high(c) == ~ConfLess(c, FourFifths)
        total_decisions == Len(history)
        sum == SumConfidence(history)
    IN  IF history = <<>>
        THEN [k \in {"total_decisions"} |-> 0]
        ELSE [total_decisions |-> total_decisions,
              average_confidence |-> Frac(sum[1], sum[2] * total_decisions),
              confidence_distribution |->
                 [low |-> Cardinality({i \in DOMAIN history : low(history[i].confidence)}),
                  medium |-> Cardinality({i \in DOMAIN history : medium(history[i].confidence)}),
                  high |-> Cardinality({i \in DOMAIN history : high(history[i].confidence)})]]

\* DecisionEngine.get_decision_statistics, on the history.  The two entries
\* read from the clock (average_execution_time_ms, recent_decisions) are
\* not represented.
get_decision_statistics(history) ==
    LET low(c) == ConfLess(c, Half)
        medium(c) == ~ConfLess(c, Half) /\ ConfLess(c, FourFifths)
        high(c) == ~ConfLess(c, FourFifths)
        total_decisions == Len(history)
        sum == SumConfidence(history)
    IN  IF history = <<>>
        THEN [k \in {"total_decisions"} |-> 0]
        ELSE [total_decisions |-> total_decisions,
              average_confidence |-> Frac(sum[1], sum[2] * total_decisions),
              confidence_distribution |->
                 [low |-> Cardinality({i \in DOMAIN history : low(history[i].confidence)}),
                  medium |-> Cardinality({i \in DOMAIN history : medium(history[i].confidence)}),
                  high |-> Cardinality({i \in DOMAIN history : high(history[i].confidence)})]]

\* Feedback that drops the decision it is about from the history.
learn_from_feedback_Forgets(engine, decision_id, success) ==
    [engine EXCEPT !.decision_history =
        IF success \/ engine.decision_history = <<>>
        THEN engine.decision_history
        ELSE Tail(engine.decision_history)]

\* DecisionEngine.learn_from_feedback: logs, and leaves the engine as it is.
learn_from_feedback(engine, decision_id, success) == engine

NoResult ==
    [selected_option |-> NoneOption, confidence |-> <<0, 1>>, via |-> "none",
     alternative_options |-> <<>>, expected_outcome |-> [risk_level |-> "none"]]

\* The fallback strategy consulted after the registered ones.
Consulted_WithFallback(registry, context) ==
    Get(registry, context.decision_type, <<>>) \o <<fallback_strategy>>

\* The strategies make_decision consults:
\* self.strategies.get(context.decision_type, [self.fallback_strategy])
Consulted(registry, context) ==
    Get(registry, context.decision_type, <<fallback_strategy>>)

\* The loop left at the first strategy that succeeds.
EvaluateStrategies_StopAtSuccess(strategies_, context) ==
    LET every == [i \in 1..Len(strategies_) |-> Evaluate(strategies_[i], context)]
        oks == {i \in 1..Len(strategies_) : every[i].ok}
        stop == IF oks = {} THEN Len(strategies_)
                ELSE CHOOSE i \in oks : \A j \in oks : i <= j
    IN  SubSeq(every, 1, stop)

\* The loop of make_decision over the strategies: the outcome of each
\* evaluate, in order; a raise is caught and logged.
EvaluateStrategies(strategies_, context) ==
    [i \in 1..Len(strategies_) |-> Evaluate(strategies_[i], context)]

\* make_decision after the loop: select, predict the outcome, build the
\* result.  A raise of _predict_outcome is not caught.
SelectBest(strategies_, outcomes, context) ==
    LET succeeded(e) == e.ok
        evaluations == SortByConfidence(SelectSeq(outcomes, succeeded))
        selected_option == IF evaluations = <<>> THEN context.available_options[1]
                           ELSE evaluations[1].option
        confidence == IF evaluations = <<>> THEN <<1, 10>>
                      ELSE evaluations[1].confidence
        strategy_name == IF evaluations = <<>> THEN "fallback"
                         ELSE evaluations[1].name
        alternatives == Slice(evaluations, 1, 5)
        predicted == _predict_outcome(selected_option)
    IN  IF predicted.raised
        THEN [kind |-> "raised", error |-> "TypeError", result |-> NoResult,
              evaluated |-> strategies_, outcomes |-> outcomes]
        ELSE [kind |-> "returned", error |-> "none",
              result |->
                [selected_option |-> selected_option,
                 confidence |-> confidence,
                 via |-> strategy_name,
                 alternative_options |->
                    [i \in 1..Len(alternatives) |-> alternatives[i].option],
                 expected_outcome |-> predicted.outcome],
              evaluated |-> strategies_, outcomes |-> outcomes]

\* The empty-options check made only after the strategies were consulted.
make_decision_LateCheck(registry, context) ==
    LET strategies_ == Consulted(registry, context)
    IN  IF context.available_options = <<>>
        THEN [kind |-> "raised", error |-> "ValueError", result |-> NoResult,
              evaluated |-> strategies_, outcomes |-> <<>>]
        ELSE SelectBest(strategies_, EvaluateStrategies(strategies_, context),
                        context)

\* DecisionEngine.make_decision up to the return: what the call does, as
\* kind "raised" with the error, or kind "returned" with the result; with
\* the strategies whose evaluate ran and the outcome of each.
make_decision(registry, context) ==
    LET strategies_ == Consulted(registry, context)
    IN  IF context.available_options = <<>>
        THEN [kind |-> "raised", error |-> "ValueError", result |-> NoResult,
              evaluated |-> <<>>, outcomes |-> <<>>]
        ELSE SelectBest(strategies_, EvaluateStrategies(strategies_, context),
                        context)

\* ------------------------------------------- production readiness checker
\* Cross-validation scores are integers in units of 1/CvScale.
CvScale == 100

\* std_score > 0.1, in units of 1/CvScale
StdThreshold == 10

RECURSIVE SumSeq(_)
SumSeq(seq) == IF seq = <<>> THEN 0 ELSE Head(seq) + SumSeq(Tail(seq))

\* ProductionReadinessChecker.check_model_robustness.  np.std is the
\* population standard deviation sqrt(sum((x - mean)^2) / n); with
\* d[i] = n * x[i] - sum(x) it exceeds the threshold t exactly when
\* sum(d[i]^2) > t^2 * n^3.
check_model_robustness(cv_scores) ==
    LET n == Len(cv_scores)
        total == SumSeq(cv_scores)
        d == [i \in 1..n |-> n * cv_scores[i] - total]
        squares == SumSeq([i \in 1..n |-> d[i] * d[i]])
    IN  IF cv_scores = <<>>
        THEN [robust |-> FALSE, message |-> "No cross-validation scores available"]
        ELSE IF squares > StdThreshold * StdThreshold * n * n * n
        THEN [robust |-> FALSE, message |-> "High variance in CV scores"]
        ELSE [robust |-> TRUE, message |-> "Model is stable"]

\* ------------------------------------------------------------------ inputs
\* Option records: dicts from attribute names to values.
Opt1(a, x) == [k \in {a} |-> x]

OptA == [k \in {"performance", "cost", "reliability"} |->
            CASE k = "performance" -> Num(90) [] k = "cost" -> Num(1000)
              [] k = "reliability" -> Num(95)]

OptB == [k \in {"performance", "cost", "reliability"} |->
            CASE k = "performance" -> Num(50) [] k = "cost" -> Num(100)
              [] k = "reliability" -> Num(99)]

\* performance 5000.0 at cost 10
OptHuge == [k \in {"performance", "cost"} |->
            CASE k = "performance" -> Num(500000) [] k = "cost" -> Num(1000)]

\* a categorical reliability_score
OptCat == [k \in {"performance", "reliability_score"} |->
            CASE k = "performance" -> Num(50) [] k = "reliability_score" -> Str(1)]

OptNodeX == [k \in {"available_cpu", "reliability_score", "expected_performance"} |->
            CASE k = "available_cpu" -> Num(200) [] k = "reliability_score" -> Num(90)
              [] k = "expected_performance" -> Num(10)]

OptNodeY == [k \in {"available_cpu", "reliability_score", "expected_performance"} |->
            CASE k = "available_cpu" -> Num(400) [] k = "reliability_score" -> Num(70)
              [] k = "expected_performance" -> Num(30)]

Perf(x) == Opt1("performance", Num(x))

NoConstraints == [c \in {} |-> 0]

CostMax5 == [c \in {"cost"} |-> RangeC(FALSE, 0, TRUE, 500)]

Context(decision_type, available_options, constraints) ==
    [decision_type |-> decision_type, available_options |-> available_options,
     constraints |-> constraints]

\* The contexts of the engine's life cycle.
Contexts ==
    {Context(t, <<OptA, OptB>>, NoConstraints) :
        t \in {"optimization", "routing", "scaling", "resource_allocation"}}
    \cup {Context("optimization", <<OptCat>>, NoConstraints),
          Context("optimization", <<>>, NoConstraints),
          Context("resource_allocation", <<OptNodeX, OptNodeY>>, NoConstraints)}

\* The add_strategy calls made after construction: category and strategy.
Additions ==
    {<<"optimization", MLBasedStrategy>>, <<"optimization", DecisionStrategy>>,
     <<"resource_allocation", MLBasedStrategy>>,
     <<"resource_allocation", DecisionStrategy>>}

\* The configured max_history_size; no key means the default.
Configs ==
    {[k \in {} |-> 0]} \cup {[k \in {"max_history_size"} |-> m] : m \in 0..2}

\* The contexts of a single decision: pairs of options over one attribute
\* and the scenario options, with and without a constraint.
PerfValues == {-100, 0, 100, 250}

CostValues == {0, 100, 1000}

PerfCost(p, c) ==
    [k \in {"performance", "cost"} |->
        CASE k = "performance" -> Num(p) [] k = "cost" -> Num(c)]

OptionLists ==
    {<<Perf(x), Perf(y)>> : x, y \in PerfValues}
    \cup {<<PerfCost(p, c), OptB>> : p \in PerfValues \cup {500000}, c \in CostValues}
    \cup {<<OptB, PerfCost(p, c)>> : p \in PerfValues \cup {500000}, c \in CostValues}
    \cup {<<OptA, OptB>>, <<OptB, OptA>>, <<OptA>>, <<OptCat, OptB>>,
          <<OptNodeX, OptNodeY>>, <<OptNodeY, OptNodeX, OptA>>}

DecideContexts ==
    {Context(t, o, c) : t \in {"optimization", "resource_allocation"},
                        o \in OptionLists, c \in {NoConstraints, CostMax5}}

\* Registries that add_strategy calls lead to from the constructed one.
Registries ==
    {DefaultStrategies,
     add_strategy(DefaultStrategies, "optimization", MLBasedStrategy),
     add_strategy(DefaultStrategies, "resource_allocation", MLBasedStrategy),
     add_strategy(add_strategy(DefaultStrategies, "optimization",
                               WeightedScoringStrategy([a \in {"performance"} |-> 10])),
                  "optimization", DecisionStrategy)}

\* The inputs of an engine in use: contexts whose confidences are 0.95, 0.5,
\* 0.8 and 0.1, one without options, and strategies for a category with
\* and without a default.
UseContexts ==
    {Context("optimization", <<OptA, OptB>>, NoConstraints),
     Context("optimization", <<OptA>>, NoConstraints),
     Context("optimization", <<Perf(500), Perf(100)>>, NoConstraints),
     Context("resource_allocation", <<OptA, OptB>>, NoConstraints),
     Context("optimization", <<>>, NoConstraints)}

UseAdditions ==
    {<<"optimization", MLBasedStrategy>>, <<"resource_allocation", MLBasedStrategy>>}

DecisionIds == {"d1", "d2"}

\* A weighted strategy that scores the first scenario option 0.05 and the
\* second -0.89.
PreferFirst ==
    WeightedScoringStrategy(
        [a \in {"cost", "reliability"} |->
            CASE a = "cost" -> 1 [] a = "reliability" -> -10])

\* The strategies registered for one category before the engine decides.
RankPool == {PreferFirst, fallback_strategy, MLBasedStrategy}

RankContexts ==
    {Context("optimization", <<OptA, OptB>>, NoConstraints),
     Context("optimization", <<OptNodeX, OptNodeY>>, NoConstraints)}

\* The inputs of make_decision calls run as tasks, and the strategies added
\* while they run.
TaskContexts ==
    {Context("optimization", <<OptA, OptB>>, NoConstraints),
     Context("resource_allocation", <<OptNodeX, OptNodeY>>, NoConstraints),
     Context("optimization", <<>>, NoConstraints)}

TaskAdditions ==
    {<<"optimization", MLBasedStrategy>>, <<"resource_allocation", MLBasedStrategy>>}

\* The sequences over S of length at most n.
SeqsUpTo(S, n) == UNION {[1..k -> S] : k \in 0..n}

\* Inputs of _meets_constraint: values and constraints of every form.
ConstraintValues ==
    {Num(0), Num(300), Num(400), Num(500), Num(700), Bool(TRUE),
     Str(1), Str(2), Str(3)}

ConstraintForms ==
    {RangeC(hasMin, 300, hasMax, 500) : hasMin, hasMax \in BOOLEAN}
    \cup {EqualsC(Num(400)), EqualsC(Str(1)),
          ListC({Str(1), Str(2)}), ListC({Num(300), Num(500)}),
          SetC({Str(1), Str(2)}), SetC({Num(300), Num(500)}),
          ScalarC(Str(1)), ScalarC(Num(400)), ScalarC(Bool(TRUE))}

\* Inputs of _calculate_score.
OptFlag ==
    [k \in {"performance", "cost", "speed", "tier"} |->
        CASE k = "performance" -> Num(100) [] k = "cost" -> Num(100)
          [] k = "speed" -> Bool(TRUE) [] k = "tier" -> Str(1)]

ScoreOptions ==
    {PerfCost(p, c) : p \in PerfValues, c \in CostValues}
    \cup {Perf(x) : x \in PerfValues} \cup {OptA, OptB, OptFlag}

ScoreConstraints ==
    {NoConstraints, CostMax5,
     [c \in {"cost", "performance"} |->
        IF c = "cost" THEN RangeC(FALSE, 0, TRUE, 500)
        ELSE RangeC(TRUE, 100, FALSE, 0)],
     [c \in {"tier"} |-> SetC({Str(1), Str(2)})],
     [c \in {"tier"} |-> ListC({Str(2)})],
     [c \in {"tier", "cost"} |->
        IF c = "tier" THEN ScalarC(Str(1)) ELSE EqualsC(Num(100))]}

ScoreWeights ==
    {fallback_strategy.weights, [a \in {"performance"} |-> 10],
     [a \in {"performance", "speed"} |-> IF a = "speed" THEN 1 ELSE 4]}

\* Inputs of a strategy's evaluate: options with and without
\* expected_performance, with and without a constraint on it.
Exp(x) == Opt1("expected_performance", Num(x))

ExpOptions == {Exp(-10), Exp(0), Exp(30), Exp(90), Perf(100)}

ExpMax20 == [c \in {"expected_performance"} |-> RangeC(FALSE, 0, TRUE, 20)]

EvaluateContexts ==
    {Context("optimization", o, c) :
        o \in SeqsUpTo(ExpOptions, MaxOptions), c \in {NoConstraints, ExpMax20}}

\* A weighted strategy that counts expected_performance against an option.
AvoidExpected ==
    WeightedScoringStrategy(
        [a \in {"performance", "expected_performance"} |->
            IF a = "performance" THEN 10 ELSE -10])

EvaluateStrategiesPool ==
    {MLBasedStrategy, WeightedScoringStrategy([a \in {"performance"} |-> 10]),
     AvoidExpected}

\* Inputs of check_model_robustness: the lists of the tests and short lists.
CvUnstable == <<65, 92, 78, 85, 70>>

CvStable == <<88, 89, 87, 88, 90>>

CvValues == {65, 78, 88, 92}

CvScoreLists == {CvUnstable, CvStable} \cup SeqsUpTo(CvValues, MaxCvScores)

\* ----------------------------------------------------------- state machine
VARIABLES
    strategies,        \* self.strategies
    decision_history,  \* self.decision_history
    config,            \* self.config
    last,              \* the last make_decision call: context and outcome
    stored,            \* every result ever passed to _store_decision, in order
    calls,             \* number of make_decision calls made
    adds,              \* number of add_strategy calls made after construction
    statistics,        \* what the last get_decision_statistics call returned
    feedbacks,         \* number of learn_from_feedback calls made
    applied,           \* the last function applied on its own: arguments and result
    tasks              \* the make_decision calls run as cooperative tasks

vars == <<strategies, decision_history, config, last, stored, calls, adds,
          statistics, feedbacks, applied, tasks>>

\* A make_decision call as a task: idle before the call, awaiting while
\* suspended in the evaluate of strategy number idx of the list it iterates,
\* done after the return or the raise.  live tells whether that list is the
\* registry's list of the category or the one-element list made at line 253;
\* at_start is the list as it was when the call started.
IdleTask ==
    [state |-> "idle", context |-> Context("optimization", <<>>, NoConstraints),
     live |-> FALSE, at_start |-> <<>>, idx |-> 0,
     evaluated |-> <<>>, outcomes |-> <<>>,
     kind |-> "none", result |-> NoResult, seq |-> 0]

NoTasks == [t \in 1..MaxTasks |-> IdleTask]

\* No function applied on its own yet.
NoApplication == [op |-> "none"]

\* No statistics asked for yet.
NoStatistics == [k \in {} |-> 0]

NoCall ==
    [called |-> FALSE, context |-> Context("optimization", <<>>, NoConstraints),
     kind |-> "none", error |-> "none", result |-> NoResult,
     evaluated |-> <<>>, outcomes |-> <<>>]

Init ==
    /\ strategies = DefaultStrategies
    /\ decision_history = <<>>
    /\ config \in Configs
    /\ last = NoCall
    /\ stored = <<>>
    /\ calls = 0
    /\ adds = 0
    /\ statistics = NoStatistics
    /\ feedbacks = 0
    /\ applied = NoApplication
    /\ tasks = NoTasks

AddStrategy ==
    \E a \in Additions :
        /\ adds < MaxAdds
        /\ strategies' = add_strategy(strategies, a[1], a[2])
        /\ adds' = adds + 1
        /\ UNCHANGED <<decision_history, config, last, stored, calls,
                       statistics, feedbacks, applied, tasks>>

\* One call of make_decision(context), with the history it leaves.
Call(context) ==
    LET call == make_decision(strategies, context)
    IN  /\ calls' = calls + 1
        /\ last' = [called |-> TRUE, context |-> context,
                    kind |-> call.kind, error |-> call.error,
                    result |-> call.result,
                    evaluated |-> call.evaluated, outcomes |-> call.outcomes]
        /\ IF call.kind = "returned"
           THEN /\ decision_history' =
                      _store_decision(decision_history, call.result, config)
                /\ stored' = Append(stored, call.result)
           ELSE UNCHANGED <<decision_history, stored>>
        /\ UNCHANGED <<strategies, config, adds, statistics, feedbacks, applied, tasks>>

MakeDecision ==
    \E context \in Contexts : calls < MaxCalls /\ Call(context)

Next == AddStrategy \/ MakeDecision

Spec == Init /\ [][Next]_vars

\* A single decision on an engine whose registry add_strategy has extended.
InitDecide ==
    /\ strategies \in Registries
    /\ decision_history = <<>>
    /\ config = [k \in {} |-> 0]
    /\ last = NoCall
    /\ stored = <<>>
    /\ calls = 0
    /\ adds = 0
    /\ statistics = NoStatistics
    /\ feedbacks = 0
    /\ applied = NoApplication
    /\ tasks = NoTasks

Decide ==
    \E context \in DecideContexts : calls < MaxDecides /\ Call(context)

NextDecide == Decide

SpecDecide == InitDecide /\ [][NextDecide]_vars

\* An engine in use: every public operation, in any order.
UseAddStrategy ==
    \E a \in UseAdditions :
        /\ adds < MaxAdds
        /\ strategies' = add_strategy(strategies, a[1], a[2])
        /\ adds' = adds + 1
        /\ UNCHANGED <<decision_history, config, last, stored, calls,
                       statistics, feedbacks, applied, tasks>>

UseMakeDecision ==
    \E context \in UseContexts : calls < MaxCalls /\ Call(context)

GetDecisionStatistics ==
    /\ statistics' = get_decision_statistics(decision_history)
    /\ UNCHANGED <<strategies, decision_history, config, last, stored, calls,
                   adds, feedbacks, applied, tasks>>

LearnFromFeedback ==
    \E decision_id \in DecisionIds, success \in BOOLEAN :
        LET engine == learn_from_feedback(
                          [strategies |-> strategies,
                           decision_history |-> decision_history,
                           config |-> config],
                          decision_id, success)
        IN  /\ feedbacks < MaxFeedbacks
            /\ feedbacks' = feedbacks + 1
            /\ strategies' = engine.strategies
            /\ decision_history' = engine.decision_history
            /\ config' = engine.config
            /\ UNCHANGED <<last, stored, calls, adds, statistics, applied, tasks>>

NextUse ==
    UseAddStrategy \/ UseMakeDecision \/ GetDecisionStatistics \/ LearnFromFeedback

SpecUse == Init /\ [][NextUse]_vars

\* An engine that registers up to MaxRegistered strategies for one category
\* and then decides.
InitRank ==
    /\ strategies = DefaultStrategies
    /\ decision_history = <<>>
    /\ config = [k \in {} |-> 0]
    /\ last = NoCall
    /\ stored = <<>>
    /\ calls = 0
    /\ adds = 0
    /\ statistics = NoStatistics
    /\ feedbacks = 0
    /\ applied = NoApplication
    /\ tasks = NoTasks

Register ==
    \E s \in RankPool :
        /\ calls = 0
        /\ adds < MaxRegistered
        /\ strategies' = add_strategy(strategies, "optimization", s)
        /\ adds' = adds + 1
        /\ UNCHANGED <<decision_history, config, last, stored, calls,
                       statistics, feedbacks, applied, tasks>>

DecideRanked ==
    \E context \in RankContexts : calls < MaxDecides /\ Call(context)

NextRank == Register \/ DecideRanked

SpecRank == InitRank /\ [][NextRank]_vars

\* The functions applied on their own, once, to inputs drawn from the sets
\* above.
MeetsConstraint ==
    \E value \in ConstraintValues, constraint \in ConstraintForms :
        /\ applied = NoApplication
        /\ applied' = [op |-> "_meets_constraint", value |-> value,
                       constraint |-> constraint,
                       result |-> _meets_constraint(value, constraint)]
        /\ UNCHANGED <<strategies, decision_history, config, last, stored,
                       calls, adds, statistics, feedbacks, tasks>>

CalculateScore ==
    \E weights \in ScoreWeights, option \in ScoreOptions,
       constraints \in ScoreConstraints :
        /\ applied = NoApplication
        /\ applied' = [op |-> "_calculate_score", weights |-> weights,
                       option |-> option, constraints |-> constraints,
                       result |-> _calculate_score(weights, option, constraints)]
        /\ UNCHANGED <<strategies, decision_history, config, last, stored,
                       calls, adds, statistics, feedbacks, tasks>>

EvaluateStrategy ==
    \E strategy \in EvaluateStrategiesPool, context \in EvaluateContexts :
        /\ applied = NoApplication
        /\ applied' = [op |-> "evaluate", strategy |-> strategy,
                       context |-> context,
                       result |-> Evaluate(strategy, context)]
        /\ UNCHANGED <<strategies, decision_history, config, last, stored,
                       calls, adds, statistics, feedbacks, tasks>>

CheckModelRobustness ==
    \E cv_scores \in CvScoreLists :
        /\ applied = NoApplication
        /\ applied' = [op |-> "check_model_robustness", cv_scores |-> cv_scores,
                       result |-> check_model_robustness(cv_scores)]
        /\ UNCHANGED <<strategies, decision_history, config, last, stored,
                       calls, adds, statistics, feedbacks, tasks>>

NextFunctions ==
    MeetsConstraint \/ CalculateScore \/ EvaluateStrategy \/ CheckModelRobustness

SpecFunctions == InitRank /\ [][NextFunctions]_vars

\* make_decision calls as cooperative tasks of one event loop: a call runs
\* from its start to the first await of a strategy's evaluate, and from
\* one such await to the next or to its end; the evaluate of every strategy
\* is taken as a point where the task may be suspended.  add_strategy has
\* no await and runs between those pieces.

\* The for loop over a copy of the list taken when the call started.
Iterated_Snapshot(registry, task) == task.at_start

\* The list the for loop of lines 255-262 iterates, as it is now: the
\* registry's own list object, or the list [self.fallback_strategy].
Iterated(registry, task) ==
    IF task.live THEN registry[task.context.decision_type] ELSE task.at_start

\* The evaluations kept in one list shared by the calls in flight.
AfterEvaluate_Shared(tasks_, t, strategy, outcome) ==
    [u \in DOMAIN tasks_ |->
        IF u = t \/ tasks_[u].state = "awaiting"
        THEN [tasks_[u] EXCEPT !.evaluated = Append(@, strategy),
                               !.outcomes = Append(@, outcome)]
        ELSE tasks_[u]]

\* Lines 259-262: the evaluation, or the failure, kept by the call itself.
AfterEvaluate(tasks_, t, strategy, outcome) ==
    [tasks_ EXCEPT ![t].evaluated = Append(@, strategy),
                   ![t].outcomes = Append(@, outcome)]

StartTask ==
    \E t \in 1..MaxTasks, context \in TaskContexts :
        /\ tasks[t].state = "idle"
        /\ \A u \in 1..(t - 1) : tasks[u].state # "idle"
        /\ tasks' =
              [tasks EXCEPT ![t] =
                  IF context.available_options = <<>>
                  THEN [IdleTask EXCEPT !.state = "done", !.context = context,
                                        !.kind = "raised"]
                  ELSE [IdleTask EXCEPT
                           !.state = "awaiting", !.context = context,
                           !.live = context.decision_type \in DOMAIN strategies,
                           !.at_start = Consulted(strategies, context),
                           !.idx = 1]]
        /\ UNCHANGED <<strategies, decision_history, config, last, stored,
                       calls, adds, statistics, feedbacks, applied>>

ResumeTask ==
    \E t \in 1..MaxTasks :
        /\ tasks[t].state = "awaiting"
        /\ LET task == tasks[t]
               list == Iterated(strategies, task)
               strategy == list[task.idx]
               resumed == AfterEvaluate(tasks, t, strategy,
                                        Evaluate(strategy, task.context))
               call == SelectBest(resumed[t].evaluated, resumed[t].outcomes,
                                  task.context)
               returned == Cardinality({u \in 1..MaxTasks :
                               tasks[u].state = "done" /\ tasks[u].kind = "returned"})
           IN  IF task.idx < Len(list)
               THEN /\ tasks' = [resumed EXCEPT ![t].idx = task.idx + 1]
                    /\ UNCHANGED <<decision_history, stored>>
               ELSE /\ tasks' = [resumed EXCEPT
                                    ![t].state = "done", ![t].kind = call.kind,
                                    ![t].result = call.result,
                                    ![t].seq = IF call.kind = "returned"
                                               THEN returned + 1 ELSE 0]
                    /\ IF call.kind = "returned"
                       THEN /\ decision_history' =
                                  _store_decision(decision_history, call.result, config)
                            /\ stored' = Append(stored, call.result)
                       ELSE UNCHANGED <<decision_history, stored>>
        /\ UNCHANGED <<strategies, config, last, calls, adds, statistics,
                       feedbacks, applied>>

TaskAddStrategy ==
    \E a \in TaskAdditions :
        /\ adds < MaxAdds
        /\ strategies' = add_strategy(strategies, a[1], a[2])
        /\ adds' = adds + 1
        /\ UNCHANGED <<decision_history, config, last, stored, calls,
                       statistics, feedbacks, applied, tasks>>

NextTasks == StartTask \/ ResumeTask \/ TaskAddStrategy

SpecTasks == Init /\ [][NextTasks]_vars

TypeOK ==
    /\ DOMAIN strategies \subseteq DecisionType
    /\ calls >= 0
    /\ adds >= 0
    /\ Len(decision_history) <= Len(stored)

\* ------------------------------------------------------------------ claims
Options(call) == call.context.available_options

NonEmptyCall == last.called /\ Options(last) # <<>>

AnyFailed(call) == \E i \in DOMAIN call.outcomes : ~call.outcomes[i].ok

AnySucceeded(call) == \E i \in DOMAIN call.outcomes : call.outcomes[i].ok

\* C1: for every context with non-empty available_options, after any
\* sequence of add_strategy and make_decision calls, make_decision returns
\* a result whose selected_option equals one of context.available_options.
C1_ReturnsMember ==
    NonEmptyCall =>
        /\ last.kind = "returned"
        /\ \E i \in DOMAIN Options(last) :
              last.result.selected_option = Options(last)[i]

\* C2: make_decision with an empty available_options fails with ValueError,
\* before any strategy's evaluate is invoked and without appending to
\* decision_history.
C2_EmptyOptionsFail ==
    [][(calls' = calls + 1 /\ Options(last') = <<>>) =>
          /\ last'.kind = "raised"
          /\ last'.error = "ValueError"
          /\ last'.evaluated = <<>>
          /\ decision_history' = decision_history]_vars

C2_Witness ==
    /\ last.called
    /\ Options(last) = <<>>
    /\ last.error = "ValueError"
    /\ decision_history # <<>>

\* C3: the only error that propagates out of make_decision is the
\* empty-options ValueError: with non-empty options the call always
\* completes by returning a result.
C3_OnlyInvalidInput ==
    last.called =>
        IF Options(last) = <<>>
        THEN last.kind = "raised" /\ last.error = "ValueError"
        ELSE last.kind = "returned"

\* C4: every result returned by make_decision, hence every entry of
\* decision_history, has a confidence within [0, 1].
InUnit(confidence) ==
    /\ ~ConfLess(confidence, <<0, 1>>)
    /\ ~ConfLess(<<1, 1>>, confidence)

C4_ConfidenceInUnit ==
    /\ last.kind = "returned" => InUnit(last.result.confidence)
    /\ \A i \in DOMAIN decision_history : InUnit(decision_history[i].confidence)

C4_Witness ==
    /\ last.kind = "returned"
    /\ last.result.via = "weighted_scoring"
    /\ ConfLess(<<1, 10>>, last.result.confidence)
    /\ ConfLess(last.result.confidence, <<19, 20>>)
    /\ last.result.confidence # <<1, 2>>
    /\ decision_history = <<last.result>>

\* C5: for every non-negative max_history_size the length of
\* decision_history never exceeds max_history_size, and the retained
\* entries are the most recent ones in their original order.
MaxHistory == get_config_value(config, "max_history_size", DefaultMaxHistory)

C5_HistoryBounded ==
    /\ Len(decision_history) <= MaxHistory
    /\ \E k \in 0..Len(stored) :
          decision_history = SubSeq(stored, k + 1, Len(stored))

\* C6: if one strategy raises while another registered for the same
\* category succeeds, make_decision does not raise and its selected option
\* and confidence are those it produces without the failing strategies.
WithoutFailing(call) ==
    LET ok(s) == Evaluate(s, call.context).ok
    IN  [t \in {call.context.decision_type} |-> SelectSeq(call.evaluated, ok)]

C6_FailureSkipped ==
    (last.called /\ AnyFailed(last) /\ AnySucceeded(last)) =>
        LET other == make_decision(WithoutFailing(last), last.context)
        IN  /\ last.kind = "returned"
            /\ other.kind = "returned"
            /\ last.result.selected_option = other.result.selected_option
            /\ last.result.confidence = other.result.confidence

\* C7: when every strategy consulted raises, make_decision returns
\* available_options[0] with confidence 0.1 and no alternatives, and the
\* result is appended to decision_history.
C7_AllFailedFallback ==
    [][(calls' = calls + 1 /\ Options(last') # <<>> /\ ~AnySucceeded(last')) =>
          /\ last'.kind = "returned"
          /\ last'.result.selected_option = Options(last')[1]
          /\ last'.result.confidence = <<1, 10>>
          /\ last'.result.alternative_options = <<>>
          /\ stored' = Append(stored, last'.result)
          /\ (MaxHistory > 0 =>
                decision_history'[Len(decision_history')] = last'.result)]_vars

\* C8: with a single weighted-scoring strategy and two options that differ
\* only in one positively weighted numeric attribute and violate no
\* constraint, the option with the higher value is selected, whatever its
\* position and whatever the two values are.
DifferOnlyIn(o1, o2, a) ==
    /\ DOMAIN o1 = DOMAIN o2
    /\ a \in DOMAIN o1
    /\ o1[a].kind = "num" /\ o2[a].kind = "num"
    /\ o1[a].v # o2[a].v
    /\ \A b \in DOMAIN o1 \ {a} : o1[b] = o2[b]

SingleWeighted(call) ==
    /\ call.called
    /\ Len(call.evaluated) = 1
    /\ call.evaluated[1].name = "weighted_scoring"

MeetsAll(option, constraints) ==
    \A c \in Applicable(option, constraints) :
        _meets_constraint(option[c], constraints[c]) = "true"

C8_HigherValueWins ==
    \A a \in {"performance", "reliability"} :
        LET o == Options(last)
            w == last.evaluated[1].weights
        IN  ( /\ SingleWeighted(last)
              /\ Len(o) = 2
              /\ DifferOnlyIn(o[1], o[2], a)
              /\ a \in DOMAIN w /\ w[a] > 0
              /\ MeetsAll(o[1], last.context.constraints)
              /\ MeetsAll(o[2], last.context.constraints)
              /\ last.kind = "returned" )
            =>
            last.result.selected_option =
                (IF o[1][a].v > o[2][a].v THEN o[1] ELSE o[2])

\* C9: with a single weighted-scoring strategy, when some option satisfies
\* every constraint, an option violating a {min, max} constraint is never
\* selected; with cost max 5 on the two scenario options the second is
\* selected.
ViolatesRange(option, constraints) ==
    \E c \in Applicable(option, constraints) :
        /\ constraints[c].kind = "dict"
        /\ constraints[c].hasMin \/ constraints[c].hasMax
        /\ _meets_constraint(option[c], constraints[c]) = "false"

C9_ViolatorNeverSelected ==
    ( /\ SingleWeighted(last)
      /\ \E i \in DOMAIN Options(last) :
            MeetsAll(Options(last)[i], last.context.constraints)
      /\ last.kind = "returned"
      /\ last.result.via = "weighted_scoring" )
    =>
    /\ ~ViolatesRange(last.result.selected_option, last.context.constraints)
    /\ (Options(last) = <<OptA, OptB>> /\ last.context.constraints = CostMax5
          => last.result.selected_option = OptB)

\* C10: on a fresh engine, a decision for a category without registered
\* strategy over the two scenario options and no constraints selects the
\* second option: the fallback weights score it 0.197 against -2.355.
C10_Scenario ==
    ( /\ last.called /\ calls = 1 /\ adds = 0
      /\ last.context.decision_type \in {"optimization", "routing", "scaling"}
      /\ Options(last) = <<OptA, OptB>>
      /\ last.context.constraints = NoConstraints )
    =>
    /\ last.kind = "returned"
    /\ last.result.selected_option = OptB
    /\ last.evaluated = <<fallback_strategy>>
    /\ last.outcomes[1].ok
    /\ _calculate_score(last.evaluated[1].weights, OptA, NoConstraints).score = -2355
    /\ _calculate_score(last.evaluated[1].weights, OptB, NoConstraints).score = 197

C10_Witness ==
    /\ last.called /\ calls = 1 /\ adds = 0
    /\ last.context.decision_type = "scaling"
    /\ Options(last) = <<OptA, OptB>>
    /\ last.context.constraints = NoConstraints
    /\ last.result.selected_option = OptB
    /\ decision_history = <<last.result>>

\* C11: every strategy registered for a category, those added later with
\* add_strategy included, is evaluated exactly once by the next
\* make_decision for that category (one that has options), one after
\* another in registration order, whatever the earlier ones did.
C11_AllEvaluatedInOrder ==
    [][(calls' = calls + 1 /\ Options(last') # <<>>
          /\ last'.context.decision_type \in DOMAIN strategies) =>
          LET registered == strategies[last'.context.decision_type]
          IN  /\ last'.evaluated = registered
              /\ Len(last'.outcomes) = Len(registered)
              /\ \A i \in 1..Len(registered) :
                    last'.outcomes[i] = Evaluate(registered[i], last'.context)]_vars

C11_Witness ==
    /\ last.called /\ adds = 2
    /\ last.evaluated = <<resource_strategy, DecisionStrategy, MLBasedStrategy>>
    /\ Len(last.outcomes) = 3
    /\ last.outcomes[1].ok /\ ~last.outcomes[2].ok /\ last.outcomes[3].ok

\* The successful evaluations of a call, as indices into its outcomes.
Successful(call) == {i \in DOMAIN call.outcomes : call.outcomes[i].ok}

\* The place of successful evaluation i among the successful ones: after
\* those of higher confidence and those of equal confidence evaluated earlier.
Place(call, i) ==
    1 + Cardinality({j \in Successful(call) :
            \/ ConfLess(call.outcomes[i].confidence, call.outcomes[j].confidence)
            \/ /\ call.outcomes[j].confidence = call.outcomes[i].confidence
               /\ j < i})

AtPlace(call, p) == CHOOSE i \in Successful(call) : Place(call, i) = p

\* C12: every result has at most 4 alternative_options; with n successful
\* evaluations it has exactly min(4, n-1), the options chosen by the
\* non-winning successful evaluations in descending order of confidence.
C12_AlternativesRanked ==
    (last.kind = "returned" /\ AnySucceeded(last)) =>
        LET n == Cardinality(Successful(last))
            alts == last.result.alternative_options
        IN  /\ Len(alts) <= 4
            /\ Len(alts) = (IF n - 1 < 4 THEN n - 1 ELSE 4)
            /\ \A k \in DOMAIN alts :
                  /\ alts[k] = last.outcomes[AtPlace(last, k + 1)].option
                  /\ ~ConfLess(last.outcomes[AtPlace(last, k)].confidence,
                               last.outcomes[AtPlace(last, k + 1)].confidence)

C12_Witness ==
    /\ last.kind = "returned"
    /\ Cardinality(Successful(last)) >= 6
    /\ Len(last.result.alternative_options) = 4
    /\ last.result.alternative_options[1] # last.result.alternative_options[4]
    /\ last.outcomes[AtPlace(last, 2)].confidence
          # last.outcomes[AtPlace(last, 5)].confidence

\* C13: in every result returned by make_decision no entry of
\* alternative_options equals selected_option.
C13_AlternativesExcludeWinner ==
    last.kind = "returned" =>
        \A i \in DOMAIN last.result.alternative_options :
            last.result.alternative_options[i] # last.result.selected_option

\* C14: make_decision consults the fallback strategy if and only if no
\* strategy is registered for the category: alone in a category without
\* registration, never in a category with one, even when all registered
\* strategies fail.
C14_FallbackIffUnregistered ==
    [][(calls' = calls + 1 /\ Options(last') # <<>>) =>
          LET t == last'.context.decision_type
          IN  IF t \in DOMAIN strategies
              THEN /\ last'.evaluated = strategies[t]
                   /\ \A i \in DOMAIN last'.evaluated :
                         last'.evaluated[i] # fallback_strategy
                   /\ (~AnySucceeded(last') /\ last'.kind = "returned"
                         => last'.result.via = "fallback")
              ELSE /\ last'.evaluated = <<fallback_strategy>>
                   /\ Len(last'.outcomes) = 1]_vars

C14_Witness ==
    /\ last.called
    /\ last.context.decision_type = "optimization"
    /\ last.evaluated = <<DecisionStrategy>>
    /\ ~AnySucceeded(last)
    /\ last.kind = "returned"
    /\ last.result.via = "fallback"
    /\ last.result.selected_option = OptA

\* C15: when at least one evaluation succeeds, the result's confidence is
\* the maximum confidence among the successful evaluations and
\* selected_option is that evaluation's option; on a tie the strategy
\* registered earliest wins.
C15_MaxConfidenceWins ==
    (last.kind = "returned" /\ AnySucceeded(last)) =>
        LET best == {i \in Successful(last) :
                        \A j \in Successful(last) :
                            ~ConfLess(last.outcomes[i].confidence,
                                      last.outcomes[j].confidence)}
            w == CHOOSE i \in best : \A j \in best : i <= j
        IN  /\ last.result.confidence = last.outcomes[w].confidence
            /\ last.result.selected_option = last.outcomes[w].option
            /\ last.result.via = last.outcomes[w].name

C15_Witness ==
    /\ last.kind = "returned"
    /\ \E i, j \in Successful(last) :
          /\ i < j
          /\ last.outcomes[i].confidence = last.outcomes[j].confidence
          /\ last.outcomes[i].option # last.outcomes[j].option
          /\ last.result.confidence = last.outcomes[i].confidence
          /\ last.result.selected_option = last.outcomes[i].option
          /\ last.evaluated[i] = fallback_strategy
          /\ last.evaluated[j] = PreferFirst

\* C16: get_decision_statistics on an empty history (a new engine, or one
\* on which only failing make_decision calls were made) returns exactly
\* {total_decisions: 0}; on a non-empty history total_decisions is the
\* current length of decision_history.
C16_TotalDecisions ==
    [][GetDecisionStatistics =>
          IF decision_history = <<>>
          THEN /\ DOMAIN statistics' = {"total_decisions"}
               /\ statistics'.total_decisions = 0
          ELSE /\ "total_decisions" \in DOMAIN statistics'
               /\ statistics'.total_decisions = Len(decision_history)]_vars

C16_Witness ==
    /\ calls >= 1
    /\ last.kind = "raised"
    /\ decision_history = <<>>
    /\ DOMAIN statistics = {"total_decisions"}
    /\ statistics.total_decisions = 0

\* C17: for a non-empty history, confidence_distribution puts each decision
\* in exactly one bucket (low below 0.5, medium from 0.5 to below 0.8, high
\* from 0.8), so low + medium + high = total_decisions.
C17_BucketsPartition ==
    [][(GetDecisionStatistics /\ decision_history # <<>>) =>
          LET d == statistics'.confidence_distribution
              below(c, x, y) == c[1] * y < x * c[2]
          IN  /\ d.low + d.medium + d.high = statistics'.total_decisions
              /\ d.low = Cardinality({i \in DOMAIN decision_history :
                            below(decision_history[i].confidence, 1, 2)})
              /\ d.high = Cardinality({i \in DOMAIN decision_history :
                            ~below(decision_history[i].confidence, 4, 5)})]_vars

C17_Witness ==
    /\ Len(decision_history) = 2
    /\ decision_history[1].confidence = Half
    /\ decision_history[2].confidence = FourFifths
    /\ "confidence_distribution" \in DOMAIN statistics
    /\ statistics.total_decisions = 2
    /\ statistics.confidence_distribution = [low |-> 0, medium |-> 1, high |-> 1]

\* C18: learn_from_feedback, whatever its decision_id and success flag and
\* whenever it is called, leaves decision_history, the strategy registry
\* with its weights and the configuration as they were, so that later
\* decisions and statistics are what they would have been without it.
C18_FeedbackChangesNothing ==
    [][feedbacks' # feedbacks =>
          /\ strategies' = strategies
          /\ decision_history' = decision_history
          /\ config' = config
          /\ \A context \in UseContexts :
                make_decision(strategies', context) = make_decision(strategies, context)
          /\ get_decision_statistics(decision_history')
                = get_decision_statistics(decision_history)]_vars

C18_Witness ==
    /\ feedbacks = 1
    /\ adds >= 1
    /\ Len(decision_history) = 2
    /\ statistics # NoStatistics
    /\ statistics.total_decisions = 2

\* C19: the registry only grows: add_strategy(category, s) appends s at the
\* end of the category's list, creating the list if absent, and leaves the
\* other categories as they are; no other operation changes the registry;
\* each category's list extends what it was before.
C19_RegistryOnlyGrows ==
    [][/\ \A t \in DOMAIN strategies :
             /\ t \in DOMAIN strategies'
             /\ Len(strategies'[t]) >= Len(strategies[t])
             /\ SubSeq(strategies'[t], 1, Len(strategies[t])) = strategies[t]
       /\ adds' = adds => strategies' = strategies
       /\ adds' # adds =>
             \E t \in DOMAIN strategies' :
                 /\ Len(strategies'[t]) = Len(Get(strategies, t, <<>>)) + 1
                 /\ \A u \in DecisionType \ {t} :
                       /\ u \in DOMAIN strategies' <=> u \in DOMAIN strategies
                       /\ u \in DOMAIN strategies => strategies'[u] = strategies[u]]_vars

C19_Witness ==
    /\ adds = 2 /\ calls = 2 /\ feedbacks = 1
    /\ statistics # NoStatistics
    /\ "optimization" \in DOMAIN strategies
    /\ strategies["optimization"] = <<MLBasedStrategy>>
    /\ strategies["resource_allocation"] = <<resource_strategy, MLBasedStrategy>>

\* The adjusted scores of a call's options under the weights, highest first.
RECURSIVE Descending(_)
Descending(scores) ==
    IF scores = <<>> THEN <<>>
    ELSE LET m == CHOOSE i \in DOMAIN scores : \A j \in DOMAIN scores : scores[j] <= scores[i]
             rest == [j \in 1..(Len(scores) - 1) |->
                         IF j < m THEN scores[j] ELSE scores[j + 1]]
         IN  <<scores[m]>> \o Descending(rest)

AdjustedScores(weights, context) ==
    Descending([i \in DOMAIN context.available_options |->
                   _calculate_score(weights, context.available_options[i],
                                    context.constraints).score])

\* (top - second) / top clamped into [0.1, 0.95], for top # 0
ClampedGap(top, second) ==
    IF top < 0 \/ 10 * (top - second) < top THEN <<1, 10>>
    ELSE IF 20 * (top - second) > 19 * top THEN <<19, 20>>
    ELSE Frac(top - second, top)

\* C20: for every context with two or more options a weighted-scoring
\* evaluate returns the confidence (top - second) / top clamped into
\* [0.1, 0.95], top and second being the two highest adjusted scores; for
\* exactly one option it returns 0.5.
C20_GapConfidenceClamped ==
    \A i \in DOMAIN last.evaluated :
        (last.called /\ last.evaluated[i].name = "weighted_scoring") =>
            LET sorted == AdjustedScores(last.evaluated[i].weights, last.context)
            IN  /\ last.outcomes[i].ok
                /\ Len(sorted) = 1 => last.outcomes[i].confidence = Half
                /\ (Len(sorted) >= 2 /\ sorted[1] # 0) =>
                      last.outcomes[i].confidence = ClampedGap(sorted[1], sorted[2])

\* The rules of constraint satisfaction: bounds inclusive and optional,
\* equals exact, membership for a list or a set, equality for a scalar.
AtLeast(value, bound) ==
    IsNumber(value) /\ IsNumber(bound) /\ NumOf(bound) <= NumOf(value)

Accepts(value, constraint) ==
    CASE constraint.kind = "dict" ->
            /\ constraint.hasMin => AtLeast(value, constraint.min)
            /\ constraint.hasMax => AtLeast(constraint.max, value)
            /\ constraint.hasEq => PyEq(value, constraint.eq)
      [] constraint.kind \in {"list", "set"} ->
            \E e \in constraint.items : PyEq(value, e)
      [] OTHER -> PyEq(value, constraint.eq)

HasRule(constraint) ==
    constraint.kind = "dict" =>
        constraint.hasMin \/ constraint.hasMax \/ constraint.hasEq

\* C21: the constraint check accepts a value exactly when: min <= value <=
\* max for a mapping with min and/or max (bounds optional and inclusive),
\* value = equals for a mapping with equals, value is a member for a set or
\* list constraint, value equals the constraint for any other constraint.
C21_ConstraintRules ==
    (applied.op = "_meets_constraint" /\ HasRule(applied.constraint)) =>
        (applied.result = "true" <=> Accepts(applied.value, applied.constraint))

\* The weighted sum of an option over the attributes the engine's
\* strategies weigh.
Term(weights, option, a) ==
    IF a \in DOMAIN weights /\ a \in DOMAIN option /\ IsNumber(option[a])
    THEN NumOf(option[a]) * weights[a]
    ELSE 0

PlainSum(weights, option) ==
    Term(weights, option, "performance") + Term(weights, option, "reliability")
    + Term(weights, option, "cost") + Term(weights, option, "speed")

\* C22: the adjusted score of an option is the sum over the configured
\* attributes of value times weight (a boolean counting 1 or 0) minus 1000
\* for each constraint of context.constraints that the option violates;
\* a violating option is penalised, not removed.
C22_AdjustedScore ==
    (applied.op = "_calculate_score" /\ ~applied.result.raised) =>
        applied.result.score =
            PlainSum(applied.weights, applied.option)
            - 1000 * SScale
              * Cardinality({c \in DOMAIN applied.constraints \cap DOMAIN applied.option :
                    ~Accepts(applied.option[c], applied.constraints[c])})

\* C23: for non-empty options the heuristic strategy returns the first
\* option of highest expected_performance, a missing one counting 0, with
\* confidence 0.7 whatever the constraints are.
C23_HeuristicChoice ==
    (/\ applied.op = "evaluate"
     /\ applied.strategy = MLBasedStrategy
     /\ applied.context.available_options # <<>>) =>
        LET o == applied.context.available_options
            ep(i) == IF "expected_performance" \in DOMAIN o[i]
                     THEN o[i]["expected_performance"].v ELSE 0
            b == CHOOSE i \in DOMAIN o :
                     /\ \A j \in DOMAIN o : ep(j) <= ep(i)
                     /\ \A j \in DOMAIN o : j < i => ep(j) < ep(i)
        IN  /\ applied.result.ok
            /\ applied.result.option = o[b]
            /\ applied.result.confidence = <<7, 10>>

C23_Witness ==
    /\ applied.op = "evaluate"
    /\ applied.strategy = MLBasedStrategy
    /\ applied.context.available_options = <<Exp(-10), Perf(100), Exp(0)>>
    /\ applied.context.constraints = ExpMax20
    /\ applied.result.option = Perf(100)
    /\ applied.result.confidence = <<7, 10>>

\* C24: check_model_robustness reports scores that vary as much as
\* [0.65, 0.92, 0.78, 0.85, 0.70] as not robust with a message naming
\* variance, scores that vary as little as [0.88, 0.89, 0.87, 0.88, 0.90]
\* as robust with a 'stable' message, and an empty list as not robust.
C24_RobustnessVerdicts ==
    applied.op = "check_model_robustness" =>
        /\ applied.cv_scores = CvUnstable =>
              /\ ~applied.result.robust
              /\ applied.result.message = "High variance in CV scores"
        /\ applied.cv_scores = CvStable =>
              /\ applied.result.robust
              /\ applied.result.message = "Model is stable"
        /\ applied.cv_scores = <<>> => ~applied.result.robust

ReturnedTasks == {t \in 1..MaxTasks : tasks[t].state = "done" /\ tasks[t].kind = "returned"}

ByCompletion ==
    [k \in 1..Cardinality(ReturnedTasks) |->
        tasks[CHOOSE t \in ReturnedTasks : tasks[t].seq = k].result]

HistoryPerTask ==
    LET n == Cardinality(ReturnedTasks)
    IN  /\ \A k \in 1..n : \E t \in ReturnedTasks : tasks[t].seq = k
        /\ \E k \in 0..n : decision_history = SubSeq(ByCompletion, k + 1, n)
        /\ n <= MaxHistory => decision_history = ByCompletion
        /\ (MaxHistory >= 1 /\ n > MaxHistory) => Len(decision_history) = MaxHistory

\* What a call returns when it runs alone on the strategies it iterates.
Alone(task, registry) ==
    LET list == IF task.live THEN registry[task.context.decision_type]
                ELSE <<fallback_strategy>>
    IN  SelectBest(list, EvaluateStrategies(list, task.context), task.context)

\* C26: when make_decision calls run as cooperative tasks and interleave at
\* the awaits of evaluate, each call's selected_option and confidence depend
\* on its own context and the registry only, and once the calls completed
\* decision_history holds one entry per completed call, in the order of
\* completion, up to the max_history_size bound.
C26_TasksIndependent ==
    [][/\ \A t \in 1..MaxTasks :
             (tasks[t].state = "awaiting" /\ tasks'[t].state = "done") =>
                 LET alone == Alone(tasks[t], strategies)
                 IN  /\ tasks'[t].kind = alone.kind
                     /\ tasks'[t].result.selected_option = alone.result.selected_option
                     /\ tasks'[t].result.confidence = alone.result.confidence
       /\ HistoryPerTask']_vars

C26_Witness ==
    /\ ReturnedTasks = {1, 2}
    /\ tasks[1].context # tasks[2].context
    /\ tasks[1].result.selected_option = OptB
    /\ tasks[2].result.selected_option = OptNodeY
    /\ tasks[2].seq = 1 /\ tasks[1].seq = 2
    /\ tasks[1].result # tasks[2].result
    /\ decision_history = <<tasks[2].result, tasks[1].result>>

\* C30: make_decision iterates the live list of its category: a strategy
\* added to a category that had a registration while a call for it is
\* suspended in an evaluate is evaluated by that call too; for a category
\* without registration when the call started, a strategy added meanwhile
\* is not evaluated by the call.
C30_LiveListIterated ==
    [][\A t \in 1..MaxTasks :
          (tasks[t].state = "awaiting" /\ tasks'[t].state = "done") =>
              LET category == tasks[t].context.decision_type
              IN  IF tasks[t].live
                  THEN tasks'[t].evaluated = strategies[category]
                  ELSE tasks'[t].evaluated = <<fallback_strategy>>]_vars

C30_Witness ==
    \E t, u \in 1..MaxTasks :
        /\ tasks[t].state = "done" /\ tasks[u].state = "done"
        /\ tasks[t].context.decision_type = "resource_allocation"
        /\ tasks[t].at_start = <<resource_strategy>>
        /\ tasks[t].evaluated = <<resource_strategy, MLBasedStrategy>>
        /\ tasks[u].context.decision_type = "optimization"
        /\ tasks[u].evaluated = <<fallback_strategy>>
        /\ "optimization" \in DOMAIN strategies
        /\ tasks[u].result.via = "weighted_scoring"
        /\ tasks[t].result.via = "ml_based"

\* C27: when the highest adjusted score among two or more options is
\* negative, a weighted-scoring evaluate reports confidence 0.1 however
\* large the gap to the second-best option is.
C27_NegativeTopLowConfidence ==
    (/\ applied.op = "evaluate"
     /\ applied.strategy.name = "weighted_scoring"
     /\ Len(applied.context.available_options) >= 2
     /\ AdjustedScores(applied.strategy.weights, applied.context)[1] < 0) =>
        /\ applied.result.ok
        /\ applied.result.confidence = <<1, 10>>

C27_Witness ==
    /\ applied.op = "evaluate"
    /\ applied.strategy = AvoidExpected
    /\ applied.context.available_options = <<Exp(90), Exp(30)>>
    /\ applied.context.constraints = NoConstraints
    /\ AdjustedScores(applied.strategy.weights, applied.context) = <<-300, -900>>
    /\ applied.result.option = Exp(30)
    /\ applied.result.confidence = <<1, 10>>

\* C28: when the highest adjusted score among two or more options is zero,
\* a weighted-scoring evaluate raises a division error instead of
\* returning; if it is the only strategy consulted, make_decision returns
\* available_options[0] with confidence 0.1 whatever the scores are.
C28_ZeroTopFallsBack ==
    (/\ last.called
     /\ Len(Options(last)) >= 2
     /\ SingleWeighted(last)
     /\ AdjustedScores(last.evaluated[1].weights, last.context)[1] = 0) =>
        /\ ~last.outcomes[1].ok
        /\ last.outcomes[1].error = "ZeroDivisionError"
        /\ last.kind = "returned"
        /\ last.result.selected_option = Options(last)[1]
        /\ last.result.confidence = <<1, 10>>

\* C29: a constraint is applied only to options that carry the constrained
\* attribute: an option lacking an attribute named in context.constraints
\* gets no penalty for it, so that an option lacking all of them scores its
\* plain weighted sum.
C29_MissingAttributeUnpenalised ==
    (applied.op = "_calculate_score" /\ ~applied.result.raised) =>
        LET carried == DOMAIN applied.constraints \cap DOMAIN applied.option
            plain == PlainSum(applied.weights, applied.option)
        IN  /\ carried = {} => applied.result.score = plain
            /\ \E n \in 0..Cardinality(carried) :
                  applied.result.score = plain - 1000 * SScale * n

C29_Witness ==
    /\ applied.op = "_calculate_score"
    /\ applied.option = Perf(250)
    /\ applied.constraints = CostMax5
    /\ applied.result.score = 250 * 4

\* ----------------------------------------------------- what holds besides
\* Whenever make_decision returns, the selected option is one of the
\* options of the context.
ReturnedSelectionIsMember ==
    (NonEmptyCall /\ last.kind = "returned") =>
        \E i \in DOMAIN Options(last) :
            last.result.selected_option = Options(last)[i]

\* With non-empty options the only raise is the TypeError of
\* _predict_outcome, on an option whose reliability_score is no number.
RaisedOnlyByPredictOutcome ==
    (NonEmptyCall /\ last.kind = "raised") =>
        /\ last.error = "TypeError"
        /\ \E i \in DOMAIN Options(last) :
              /\ "reliability_score" \in DOMAIN Options(last)[i]
              /\ ~IsNumber(Options(last)[i]["reliability_score"])

\* A call where some strategy failed and some succeeded ends as the call
\* without the failing strategies ends.
SkippedFailureSameOutcome ==
    (last.called /\ AnyFailed(last) /\ AnySucceeded(last)) =>
        LET other == make_decision(WithoutFailing(last), last.context)
        IN  /\ last.kind = other.kind
            /\ last.result.selected_option = other.result.selected_option
            /\ last.result.confidence = other.result.confidence

\* A call that returns after every strategy failed returns the first
\* option with confidence 0.1 and stores it.
AllFailedReturnedFallback ==
    [][(calls' = calls + 1 /\ Options(last') # <<>> /\ ~AnySucceeded(last')
          /\ last'.kind = "returned") =>
          /\ last'.result.selected_option = Options(last')[1]
          /\ last'.result.confidence = <<1, 10>>
          /\ last'.result.alternative_options = <<>>
          /\ stored' = Append(stored, last'.result)
          /\ (MaxHistory > 0 =>
                decision_history'[Len(decision_history')] = last'.result)]_vars

\* With max_history_size >= 1 the history is the last entries stored, at
\* most max_history_size of them.
HistoryBoundedWhenPositive ==
    MaxHistory >= 1 =>
        LET n == Len(stored)
            k == IF n > MaxHistory THEN n - MaxHistory ELSE 0
        IN  decision_history = SubSeq(stored, k + 1, n)

\* The scenario with cost max 5: the second option is selected.
CostMaxScenario ==
    ( /\ SingleWeighted(last)
      /\ last.evaluated[1] = fallback_strategy
      /\ Options(last) = <<OptA, OptB>>
      /\ last.context.constraints = CostMax5 )
    => last.kind = "returned" /\ last.result.selected_option = OptB

\* Whenever the highest adjusted score is not zero, a weighted-scoring
\* evaluate returns the clamped gap, 0.1 for a negative highest score
\* included; for one option it returns 0.5.
GapConfidenceWhenTopNonZero ==
    \A i \in DOMAIN last.evaluated :
        (last.called /\ last.evaluated[i].name = "weighted_scoring") =>
            LET sorted == AdjustedScores(last.evaluated[i].weights, last.context)
            IN  /\ Len(sorted) = 1 =>
                      last.outcomes[i].ok /\ last.outcomes[i].confidence = Half
                /\ (Len(sorted) >= 2 /\ sorted[1] # 0) =>
                      /\ last.outcomes[i].ok
                      /\ last.outcomes[i].confidence = ClampedGap(sorted[1], sorted[2])
                /\ (Len(sorted) >= 2 /\ sorted[1] = 0) => ~last.outcomes[i].ok

GapConfidenceCases ==
    /\ last.called
    /\ \E i \in DOMAIN last.evaluated :
          /\ last.evaluated[i].name = "weighted_scoring"
          /\ last.outcomes[i].ok
          /\ Len(Options(last)) >= 2
          /\ last.outcomes[i].confidence \notin {<<1, 10>>, <<19, 20>>, Half}
          /\ AdjustedScores(last.evaluated[i].weights, last.context)[1] > 0

\* The constraint check follows the rules for every constraint that is not
\* a set; a set constraint rejects every value.
ConstraintRulesExceptSets ==
    (applied.op = "_meets_constraint" /\ HasRule(applied.constraint)) =>
        IF applied.constraint.kind = "set"
        THEN applied.result = "false"
        ELSE applied.result = "true" <=> Accepts(applied.value, applied.constraint)

\* The adjusted score is the weighted sum minus 1000 per violated
\* constraint when no constraint is a set.
AdjustedScoreExceptSets ==
    (/\ applied.op = "_calculate_score" /\ ~applied.result.raised
     /\ \A c \in DOMAIN applied.constraints : applied.constraints[c].kind # "set") =>
        applied.result.score =
            PlainSum(applied.weights, applied.option)
            - 1000 * SScale
              * Cardinality({c \in DOMAIN applied.constraints \cap DOMAIN applied.option :
                    ~Accepts(applied.option[c], applied.constraints[c])})

\* The robustness check on the stable list, the empty list, and the
\* unstable list, whose population standard deviation is 0.0978.
RobustnessAsComputed ==
    applied.op = "check_model_robustness" =>
        /\ applied.cv_scores = CvUnstable => applied.result.robust
        /\ applied.cv_scores = CvStable => applied.result.robust
        /\ applied.cv_scores = <<>> => ~applied.result.robust

\* No input of the robustness check lies on the threshold itself.
RobustnessOffThreshold ==
    applied.op = "check_model_robustness" =>
        LET x == applied.cv_scores
            n == Len(x)
        IN  SumSeq([i \in 1..n |-> (n * x[i] - SumSeq(x)) * (n * x[i] - SumSeq(x))])
                # StdThreshold * StdThreshold * n * n * n \/ n = 0

\* With a zero top score the single weighted strategy fails with the
\* division error, and whenever make_decision returns it returns the first
\* option with confidence 0.1.
ZeroTopFallsBackWhenReturned ==
    (/\ last.called
     /\ Len(Options(last)) >= 2
     /\ SingleWeighted(last)
     /\ AdjustedScores(last.evaluated[1].weights, last.context)[1] = 0) =>
        /\ ~last.outcomes[1].ok
        /\ last.outcomes[1].error = "ZeroDivisionError"
        /\ last.kind = "returned" =>
              /\ last.result.selected_option = Options(last)[1]
              /\ last.result.confidence = <<1, 10>>
              /\ last.result.via = "fallback"

ZeroTopCases ==
    /\ last.kind = "returned"
    /\ SingleWeighted(last)
    /\ Len(Options(last)) >= 2
    /\ AdjustedScores(last.evaluated[1].weights, last.context) = <<0, -400>>
    /\ last.result.selected_option = Options(last)[1]
    /\ last.result.selected_option = Perf(-100)

====
